---------------------------- MODULE Spec2Model ----------------------------
(***************************************************************************)
(* Hybrid simulation engine of the bioprocessing app                       *)
(* (src/Bioprocessing_app.py): kinetics, run_simulation for the four       *)
(* modes, the crash tracker kept as attributes of perfusion_kinetics, and  *)
(* calculate_productivity_metrics.                                         *)
(*                                                                         *)
(* Numbers are fixed point integers:                                       *)
(*   concentrations  mg/L   (1 g/L = 1000)                                 *)
(*   volumes         mL     (1 L   = 1000)                                 *)
(*   flow rates      mL/h                                                  *)
(*   mu_max, Y_xs, Y_xp, cell_retention, dilution rates: 1/10000           *)
(*   percentages     integer percent                                      *)
(*   times           hours for parameters; samples carry the numerator of  *)
(*                   a fraction whose denominator is TimeDen(mode, p)      *)
(* odeint is modelled as one explicit Euler step, hence one evaluation of  *)
(* the rate function, per grid interval.                                   *)
(*                                                                         *)
(* Specifications:                                                         *)
(*   Spec          calls of run_simulation in sequence, then the metrics   *)
(*   SpecConc      two perfusion runs interleaved                          *)
(*   SpecPairs     runs without variability, one kept for comparison       *)
(*   SpecVar       the variability injection alone                         *)
(*   SpecMetrics   calculate_productivity_metrics alone                    *)
(*   SpecEnsemble  the ensemble and metrics loops of the page script       *)
(*   SpecKinetics  single evaluations of the rate functions                *)
(*   SpecOverlay   the run shown, overlay runs, then the culture status    *)
(***************************************************************************)
EXTENDS Integers, Sequences, FiniteSets, TLC

----------------------------------------------------------------------------
(* Bounds of the model *)

\* samples of the full-horizon grid (np.linspace(0, 50, 500) in the source)
GridSpan == 7
\* samples of each fed-batch phase grid (np.linspace(.., .., 250) in the source)
GridPhase == 4
\* number of calls of run_simulation in one session
MaxRuns == 2
\* number of overlay scenarios selected on the page
MaxOverlays == 2
\* number of calls of run_simulation in a session of runs without variability
MaxPairRuns == 3
\* largest num_runs of an ensemble (the widget allows up to 50)
MaxEnsemble == 4
\* rate evaluations of each of the two concurrent perfusion runs
MaxEvals == 3

(* Program constants *)

\* horizon of t_span and total_time of a fed-batch run, hours
Horizon == 50
\* samples per hour of a repeated fed-batch cycle grid
SamplesPerHour == 10
\* denominator of the fixed point fractions (1/10000)
ONE == 100 * 100

----------------------------------------------------------------------------
(* Arithmetic helpers *)

Max(a, b) == IF a >= b THEN a ELSE b
Min(a, b) == IF a <= b THEN a ELSE b

\* a * x for a fraction a given in 1/10000
Frac(a, x) == (a * x) \div ONE

Last(s) == s[Len(s)]
\* faulty variant: the first element is kept
Tail1KeepsFirst(s) == s

Tail1(s) == SubSeq(s, 2, Len(s))

----------------------------------------------------------------------------
(* Kinetics *)

\* mu = mu_max * S / (Ks + S)
Monod(mu_max, Ks, S) == (mu_max * S) \div (Ks + S)

\* faulty variant: substrate consumed one for one with biomass, the yield ignored
batch_kinetics_unit_yield(y, mu_max, Ks, Y_xs, Y_xp) ==
    LET dX_dt == Frac(Monod(mu_max, Ks, y[2]), y[1])
    IN  <<dX_dt, -dX_dt, Frac(Y_xp, dX_dt)>>

\* batch_kinetics(y, t, mu_max, Ks, Y_xs, Y_xp): y = <<X, S, P>>
batch_kinetics(y, mu_max, Ks, Y_xs, Y_xp) ==
    LET X == y[1]
        S == y[2]
        mu == Monod(mu_max, Ks, S)
        dX_dt == Frac(mu, X)
        dS_dt == -((dX_dt * ONE) \div Y_xs)
        dP_dt == Frac(Y_xp, dX_dt)
    IN  <<dX_dt, dS_dt, dP_dt>>

\* faulty variant: a threshold of 0.00015 * S_max
CrashThresholdTenfold(peak) == (3 * peak) \div 20000

\* S_threshold = 0.000015 * S_max  (15/1000000 = 3/200000)
CrashThreshold(peak) == (3 * peak) \div 200000

\* S = max(0.0, S)
ClampS(S) == Max(0, S)

\* faulty variant: the attribute follows the substrate value just evaluated
TrackPeakLatest(hasPeak, peak, Sf, S) ==
    IF hasPeak THEN S ELSE Max(Sf, S)

\* the S_max attribute after "if not hasattr: S_max = max(Sf, S)" and
\* "S_max = max(S_max, S)"
TrackPeak(hasPeak, peak, Sf, S) ==
    IF hasPeak THEN Max(peak, S) ELSE Max(Max(Sf, S), S)

\* faulty variant: the threshold itself no longer counts as crashed
InCrashStateStrict(S, peak) == S < CrashThreshold(peak)

\* the branch test "if S <= S_threshold"
InCrashState(S, peak) == S <= CrashThreshold(peak)

\* rates of the CRASH STATE branch
CrashRates(X, S, P, D, Sf, R, D_bleed) ==
    << -Frac(ONE - R, Frac(D, X)) - Frac(D_bleed, X),
       Frac(D, Sf - S) - Frac(D_bleed, S),
       -Frac(D, P) - Frac(D_bleed, P) >>

\* rates of the NORMAL OPERATION branch
HealthyRates(X, S, P, mu_max, Ks, Y_xs, Y_xp, D, Sf, R, D_bleed) ==
    LET mu == Monod(mu_max, Ks, S)
        cell_growth == Frac(mu, X)
        cell_overflow == -Frac(ONE - R, Frac(D, X))
        cell_bleed == -Frac(D_bleed, X)
        substrate_in == Frac(D, Sf)
        substrate_out == -Frac(D, S)
        substrate_consumed == -((cell_growth * ONE) \div Y_xs)
        product_formation == Frac(Y_xp, cell_growth)
        product_out == -Frac(D, P)
    IN  << cell_growth + cell_overflow + cell_bleed,
           substrate_in + substrate_out + substrate_consumed,
           product_formation + product_out >>

\* perfusion_kinetics(y, t, mu_max, Ks, Y_xs, Y_xp, D, Sf, R, D_bleed) with the
\* function attributes (hasPeak, peak) read; the result carries the rates and the
\* attributes written
perfusion_kinetics(y, mu_max, Ks, Y_xs, Y_xp, D, Sf, R, D_bleed, hasPeak, peak) ==
    LET X == y[1]
        S == ClampS(y[2])
        P == y[3]
        newPeak == TrackPeak(hasPeak, peak, Sf, S)
        crash == InCrashState(S, newPeak)
    IN  [ rates |-> IF crash
                    THEN CrashRates(X, S, P, D, Sf, R, D_bleed)
                    ELSE HealthyRates(X, S, P, mu_max, Ks, Y_xs, Y_xp, D, Sf, R, D_bleed),
          S |-> S,
          S_max |-> newPeak,
          crashed |-> crash ]

\* one step of the integrator over a grid interval of length len / (n - 1)
OdeStep(y, rates, len, n) ==
    [i \in 1..3 |-> y[i] + (rates[i] * len) \div (n - 1)]

----------------------------------------------------------------------------
(* Variability injection *)

\* varied_value = original_value * (1 + random_factor), random_factor in percent
Varied(original_value, factor) == (original_value * (100 + factor)) \div 100

\* faulty variant: the varied values are used as drawn, without the clamps
PerturbUnclamped(p, d) ==
    [p EXCEPT
        !.mu_max = Varied(p.mu_max, d.strength * d.z[1]),
        !.ks     = Varied(p.ks, d.strength * d.z[2]),
        !.Y_xs   = Varied(p.Y_xs, d.strength * d.z[3]),
        !.Y_xp   = Varied(p.Y_xp, d.strength * d.z[4])]

\* faulty variant: the feed concentration is varied with the yield
PerturbFeedToo(p, d) ==
    [p EXCEPT
        !.mu_max = Max(100, Varied(p.mu_max, d.strength * d.z[1])),
        !.ks     = Max(10, Varied(p.ks, d.strength * d.z[2])),
        !.Y_xs   = Max(1000, Min(ONE, Varied(p.Y_xs, d.strength * d.z[3]))),
        !.Y_xp   = Max(100, Min(ONE, Varied(p.Y_xp, d.strength * d.z[4]))),
        !.feed_substrate = Varied(p.feed_substrate, d.strength * d.z[3])]

\* the private copy sim_params of run_simulation; d.strength is
\* variability_strength in percent, d.z the four normal draws in units of it
Perturb(p, d) ==
    [p EXCEPT
        !.mu_max = Max(100, Varied(p.mu_max, d.strength * d.z[1])),
        !.ks     = Max(10, Varied(p.ks, d.strength * d.z[2])),
        !.Y_xs   = Max(1000, Min(ONE, Varied(p.Y_xs, d.strength * d.z[3]))),
        !.Y_xp   = Max(100, Min(ONE, Varied(p.Y_xp, d.strength * d.z[4])))]

----------------------------------------------------------------------------
(* Parameter sets supplied by the caller (current_params, saved scenarios) *)

BaseParams ==
    [ initial_substrate |-> 10000, initial_biomass |-> 500, initial_volume |-> 1000,
      mu_max |-> 500, ks |-> 1000, Y_xs |-> 4500, Y_xp |-> 1500,
      feed_substrate |-> 300000, feed_rate |-> 10, bleed_rate |-> 2,
      cell_retention |-> 9500,
      exchange_time |-> 25, exchange_volume_percent |-> 20,
      harvest_volume_percent |-> 20, first_harvest_time |-> 1,
      subsequent_harvest_time |-> 1, num_cycles |-> 2 ]

\* a perfusion vessel run without feed and bleed: the substrate fades out
FadingParams ==
    [BaseParams EXCEPT !.initial_substrate = 500, !.feed_substrate = 50000,
                       !.feed_rate = 0, !.bleed_rate = 0, !.cell_retention = 0,
                       !.mu_max = 1000, !.ks = 1000]

\* a perfusion culture that depletes its substrate while the feed continues
DepletingParams ==
    [BaseParams EXCEPT !.initial_biomass = 7300, !.initial_substrate = 100,
                       !.feed_substrate = 500000, !.feed_rate = 10, !.bleed_rate = 10,
                       !.initial_volume = 10000, !.cell_retention = 9000,
                       !.mu_max = 300, !.ks = 80, !.Y_xs = 3500]

\* a perfusion culture without feed: substrate runs out and stays out
StarvingParams ==
    [BaseParams EXCEPT !.initial_biomass = 5000, !.initial_substrate = 1000,
                       !.feed_substrate = 50000, !.feed_rate = 0, !.bleed_rate = 0,
                       !.cell_retention = ONE, !.mu_max = 2500, !.ks = 100,
                       !.Y_xs = 1000]

\* a faster culture for the short cycles of a repeated fed-batch
GrowingParams ==
    [BaseParams EXCEPT !.initial_biomass = 5000, !.mu_max = 2500]

\* the largest accepted feed concentration with an initial substrate of 1 g/L
TightParams ==
    [BaseParams EXCEPT !.initial_substrate = 1000, !.feed_substrate = 500000]

\* a perfusion culture that comes within 0.007 g/L of depletion and recovers
NearCrashParams ==
    [BaseParams EXCEPT !.initial_biomass = 5000, !.initial_substrate = 500,
                       !.feed_substrate = 100000, !.feed_rate = 5, !.bleed_rate = 2,
                       !.initial_volume = 2000, !.cell_retention = 9000,
                       !.mu_max = 200, !.ks = 80, !.Y_xs = 3500]

PerfusionParams ==
    {BaseParams, DepletingParams, StarvingParams, TightParams, NearCrashParams}

\* an uploaded scenario with a biomass yield of 0
ZeroYieldParams == [BaseParams EXCEPT !.Y_xs = 0, !.initial_substrate = 50000]

Scenarios ==
    { [mode |-> "Batch", params |-> BaseParams],
      [mode |-> "Batch", params |-> [BaseParams EXCEPT !.initial_substrate = 20000]],
      [mode |-> "Batch", params |-> ZeroYieldParams] }
    \cup
    { [mode |-> "Fed-Batch",
       params |-> [BaseParams EXCEPT !.exchange_time = e, !.exchange_volume_percent = f]] :
          e \in {0, 25, Horizon}, f \in {0, 20, 100} }
    \cup
    { [mode |-> "Repeated Fed-Batch",
       params |-> [GrowingParams EXCEPT !.num_cycles = c, !.harvest_volume_percent = h,
                                     !.subsequent_harvest_time = s]] :
          c \in {1, 2}, h \in {0, 20, 50}, s \in {1, 2} }
    \cup
    { [mode |-> "Bleed-Perfusion", params |-> q] :
          q \in PerfusionParams }

\* outcomes of the random draws of one run
Draws ==
    { [strength |-> 0,  z |-> <<0, 0, 0, 0>>],
      [strength |-> 10, z |-> <<1, -1, 1, -1>>],
      [strength |-> 20, z |-> <<-6, 6, 6, -6>>] }

----------------------------------------------------------------------------
(* State *)

VARIABLES
    pc,         \* position in run_simulation / the page script
    runs,       \* calls of run_simulation completed
    mode,       \* arguments of the current call
    params,
    sim_params, \* the perturbed private copy
    sol,        \* odeint's solution of the current interval, a sequence of <<X, S, P>>
    cycle,      \* loop index i of the repeated fed-batch loop
    results,    \* t_results, x_results, ... / t_total, X_total, ...: sample records
    df,         \* the table returned
    metrics,    \* the result of calculate_productivity_metrics
    S_max,      \* perfusion_kinetics.S_max
    hasS_max,   \* hasattr(perfusion_kinetics, 'S_max')
    crashed,    \* perfusion_kinetics.crashed
    evals,      \* history: the rate evaluations of the current perfusion run
    harvests,   \* history: the harvest events of the current run
    leftover,   \* history: the function attributes found by the current call
    threads,    \* the concurrent perfusion runs (concurrent specification only)
    nominal,    \* history: the params mapping as the caller passed it
    reference,  \* history: an earlier run kept for comparison (paired specification only)
    ensemble,   \* the page script's ensemble loop (ensemble specification only)
    kin         \* one call of the rate functions (kinetics specification only)

vars == << pc, runs, mode, params, sim_params, sol, cycle, results, df, metrics,
           S_max, hasS_max, crashed, evals, harvests, leftover, threads,
           nominal, reference, ensemble, kin >>

runVars == << mode, params, sim_params, leftover, nominal >>
trackerVars == << S_max, hasS_max, crashed >>

Sample(t, y, V) == [t |-> t, X |-> y[1], S |-> y[2], P |-> y[3], V |-> V]

\* faulty variant: a filled record of zeros in place of the empty one
ZeroMetrics ==
    [ empty |-> FALSE, biomass_productivity |-> 0, product_productivity |-> 0,
      total_biomass |-> 0, total_product |-> 0,
      efficiency |-> [biomass |-> 0, product |-> 0] ]

\* metrics = {}
NoMetrics == [empty |-> TRUE]

\* no call of the rate functions on its own
NoKinetics == [at |-> "off"]

\* the page script before its ensemble loop
NoEnsemble ==
    [at |-> "off", num_runs |-> 0, i |-> 0, all_runs_df |-> << >>,
     all_metrics |-> << >>, raised |-> 0]

----------------------------------------------------------------------------
(* Grids *)

\* int(first_harvest_time * 10), int(subsequent_harvest_time * 10)
CycleSamples(hours) == hours * SamplesPerHour

\* denominator of the sample times of a run
TimeDen(m, p) ==
    CASE m = "Fed-Batch" -> GridPhase - 1
      [] m = "Repeated Fed-Batch" ->
            (CycleSamples(p.first_harvest_time) - 1)
            * (CycleSamples(p.subsequent_harvest_time) - 1)
      [] OTHER -> GridSpan - 1

\* np.linspace(a, a + len, n)[i] as a numerator over den, i counted from 0;
\* a is a numerator over den already
Linspace(a, len, n, den, i) == a + (i * len * den) \div (n - 1)

\* faulty variant: every cycle of a repeated fed-batch as long as the first
IntervalLenAlwaysFirst ==
    CASE pc = "fb_before" -> sim_params.exchange_time
      [] pc = "fb_after" -> Horizon - sim_params.exchange_time
      [] pc = "rfb_int" -> sim_params.first_harvest_time
      [] OTHER -> Horizon

\* length in hours and number of samples of the interval being integrated
IntervalLen ==
    CASE pc = "fb_before" -> sim_params.exchange_time
      [] pc = "fb_after" -> Horizon - sim_params.exchange_time
      [] pc = "rfb_int" -> IF cycle = 0 THEN sim_params.first_harvest_time
                                        ELSE sim_params.subsequent_harvest_time
      [] OTHER -> Horizon

IntervalN ==
    CASE pc \in {"fb_before", "fb_after"} -> GridPhase
      [] pc = "rfb_int" -> CycleSamples(IntervalLen)
      [] OTHER -> GridSpan

\* faulty variant: the interval's times are not shifted to its start
IntervalSamplesNoOffset(a, V) ==
    [i \in 1..Len(sol) |->
        Sample(Linspace(0, IntervalLen, IntervalN, TimeDen(mode, sim_params), i - 1),
               sol[i], V)]

\* samples of a finished interval starting at numerator a
IntervalSamples(a, V) ==
    [i \in 1..Len(sol) |->
        Sample(Linspace(a, IntervalLen, IntervalN, TimeDen(mode, sim_params), i - 1),
               sol[i], V)]

----------------------------------------------------------------------------
(* run_simulation *)

Y0(p) == << p.initial_biomass, p.initial_substrate, 0 >>

\* D = F / V and D_bleed = B / V
Dilution(flow, V) == (flow * ONE) \div V

\* faulty variant: the attribute of the earlier run is not deleted
ResetPeakKeepsOld(oldHas, oldPeak, Sf, S0) ==
    IF oldHas THEN Max(oldPeak, Max(Sf, S0)) ELSE Max(Sf, S0)

\* "Reset perfusion model state" and "Initialize crash detection"
ResetPeak(oldHas, oldPeak, Sf, S0) == Max(Sf, S0)

Init ==
    /\ pc = "idle"
    /\ runs = 0
    /\ mode = "Batch"
    /\ params = BaseParams
    /\ sim_params = BaseParams
    /\ sol = << >>
    /\ cycle = 0
    /\ results = << >>
    /\ df = << >>
    /\ metrics = NoMetrics
    /\ S_max = 0
    /\ hasS_max = FALSE
    /\ crashed = FALSE
    /\ evals = << >>
    /\ harvests = << >>
    /\ leftover = [S_max |-> 0, hasS_max |-> FALSE, crashed |-> FALSE]
    /\ threads = << >>
    /\ nominal = BaseParams
    /\ reference = << >>
    /\ kin = NoKinetics
    /\ ensemble = NoEnsemble

\* faulty variant: sim_params = params, the writes reach the caller's mapping
ParamsAfterCallAliased(p, written) == written

\* sim_params = params.copy(): the writes of the variability injection go to
\* the copy, the caller's mapping keeps its entries
ParamsAfterCall(p, written) == p

\* a call run_simulation(mode, params): the perturbed copy, then the set-up of
\* the mode's branch up to its first odeint call
StartRunWith(sc, d) ==
    /\ pc = "idle"
    /\ mode' = sc.mode
    /\ nominal' = sc.params
    /\ sim_params' = Perturb(sc.params, d)
    /\ params' = ParamsAfterCall(sc.params, sim_params')
    /\ sol' = << Y0(sim_params') >>
    /\ pc' = CASE sc.mode = "Batch" -> "batch"
               [] sc.mode = "Fed-Batch" -> "fb_before"
               [] sc.mode = "Repeated Fed-Batch" -> "rfb_int"
               [] OTHER -> "perfusion"
    /\ IF sc.mode = "Bleed-Perfusion"
       THEN /\ S_max' = ResetPeak(hasS_max, S_max, sim_params'.feed_substrate,
                                  sim_params'.initial_substrate)
            /\ hasS_max' = TRUE
            /\ crashed' = FALSE
       ELSE UNCHANGED trackerVars
    /\ cycle' = 0
    /\ results' = << >>
    /\ df' = << >>
    /\ metrics' = NoMetrics
    /\ evals' = << >>
    /\ harvests' = << >>
    /\ leftover' = [S_max |-> S_max, hasS_max |-> hasS_max, crashed |-> crashed]
    /\ UNCHANGED << runs, threads, reference, ensemble, kin >>

StartRun ==
    /\ runs < MaxRuns
    /\ \E sc \in Scenarios, d \in Draws : StartRunWith(sc, d)

\* odeint(batch_kinetics, ...): the next grid point of the current interval
IntegrateBatch ==
    /\ pc \in {"batch", "fb_before", "fb_after", "rfb_int"}
    /\ Len(sol) < IntervalN
    /\ LET rates == batch_kinetics(Last(sol), sim_params.mu_max, sim_params.ks,
                                   sim_params.Y_xs, sim_params.Y_xp)
       IN  sol' = Append(sol, OdeStep(Last(sol), rates, IntervalLen, IntervalN))
    /\ UNCHANGED << pc, runs, runVars, cycle, results, df, metrics, trackerVars,
                    evals, harvests, threads, reference, ensemble, kin >>

\* odeint(perfusion_kinetics, ...): the next grid point; the rate evaluation
\* reads and writes the function attributes
IntegratePerfusion ==
    /\ pc = "perfusion"
    /\ Len(sol) < IntervalN
    /\ LET V == sim_params.initial_volume
           r == perfusion_kinetics(Last(sol), sim_params.mu_max, sim_params.ks,
                                   sim_params.Y_xs, sim_params.Y_xp,
                                   Dilution(sim_params.feed_rate, V),
                                   sim_params.feed_substrate,
                                   sim_params.cell_retention,
                                   Dilution(sim_params.bleed_rate, V),
                                   hasS_max, S_max)
       IN  /\ sol' = Append(sol, OdeStep(Last(sol), r.rates, IntervalLen, IntervalN))
           /\ S_max' = r.S_max
           /\ hasS_max' = TRUE
           /\ crashed' = r.crashed
           /\ evals' = Append(evals, [S |-> r.S, S_max |-> r.S_max,
                                      crashed |-> r.crashed, at |-> Len(sol)])
    /\ UNCHANGED << pc, runs, runVars, cycle, results, df, metrics, harvests, threads, reference, ensemble, kin >>

\* Batch: the table of the solution over t_span
BatchDone ==
    /\ pc = "batch"
    /\ Len(sol) = IntervalN
    /\ df' = IntervalSamples(0, 0)
    /\ pc' = "done"
    /\ UNCHANGED << runs, runVars, sol, cycle, results, metrics, trackerVars,
                    evals, harvests, threads, reference, ensemble, kin >>

\* index of the first sample with S < stop_threshold = initial_substrate * 0.008,
\* Len + 1 when there is none (np.where(S < stop_threshold)[0][0])
StopsAt(s, i, S0) == 1000 * s[i][2] < 8 * S0

StopIndex(s, S0) ==
    IF \E i \in 1..Len(s) : StopsAt(s, i, S0)
    THEN CHOOSE i \in 1..Len(s) :
            /\ StopsAt(s, i, S0)
            /\ \A j \in 1..(i - 1) : ~StopsAt(s, j, S0)
    ELSE Len(s) + 1

\* faulty variant: the slice keeps the sample at stop_index
TruncateInclusive(table, stop) == SubSeq(table, 1, Min(stop, Len(table)))

\* t_span[:stop_index], X[:stop_index], ...
Truncate(table, stop) == SubSeq(table, 1, stop - 1)

\* Bleed-Perfusion: "Stop simulation when substrate is depleted" and the table
PerfusionDone ==
    /\ pc = "perfusion"
    /\ Len(sol) = IntervalN
    /\ df' = Truncate(IntervalSamples(0, 0),
                      StopIndex(sol, sim_params.initial_substrate))
    /\ pc' = "done"
    /\ UNCHANGED << runs, runVars, sol, cycle, results, metrics, trackerVars,
                    evals, harvests, threads, reference, ensemble, kin >>

----------------------------------------------------------------------------
(* Fed-Batch *)

\* faulty variant: biomass is not diluted by the exchange
ExchangeStateUndiluted(y, exchange_volume_percent, feed_substrate) ==
    LET keep == 100 - exchange_volume_percent
    IN  << y[1],
           (keep * y[2] + exchange_volume_percent * feed_substrate) \div 100,
           (keep * y[3]) \div 100 >>

\* "Concentrations after exchange": keep_fraction = 1 - exchange_fraction
ExchangeState(y, exchange_volume_percent, feed_substrate) ==
    LET keep == 100 - exchange_volume_percent
    IN  << (keep * y[1]) \div 100,
           (keep * y[2] + exchange_volume_percent * feed_substrate) \div 100,
           (keep * y[3]) \div 100 >>

\* the volume recorded with the event point and the second phase
VolumeAfterExchange(V) == V

\* the first phase is stored, the exchange applied, the event point added and
\* the second phase started from the state after the exchange
FbExchange ==
    /\ pc = "fb_before"
    /\ Len(sol) = IntervalN
    /\ LET V == sim_params.initial_volume
           den == TimeDen(mode, sim_params)
           after == ExchangeState(Last(sol), sim_params.exchange_volume_percent,
                                  sim_params.feed_substrate)
       IN  /\ results' = Append(IntervalSamples(0, V),
                                Sample(sim_params.exchange_time * den, after,
                                       VolumeAfterExchange(V)))
           /\ sol' = << after >>
    /\ pc' = "fb_after"
    /\ UNCHANGED << runs, runVars, cycle, df, metrics, trackerVars, evals,
                    harvests, threads, reference, ensemble, kin >>

\* the second phase without its first sample is appended and the table built
FbDone ==
    /\ pc = "fb_after"
    /\ Len(sol) = IntervalN
    /\ df' = results \o Tail1(IntervalSamples(
                   sim_params.exchange_time * TimeDen(mode, sim_params),
                   Last(results).V))
    /\ pc' = "done"
    /\ UNCHANGED << runs, runVars, sol, cycle, results, metrics, trackerVars,
                    evals, harvests, threads, reference, ensemble, kin >>

----------------------------------------------------------------------------
(* Repeated Fed-Batch *)

\* harvest_volume = V_before * (harvest_volume_percent / 100.0)
HarvestVolume(V_before, harvest_volume_percent) ==
    (V_before * harvest_volume_percent) \div 100

\* faulty variant: the volume recorded is the one left by the harvest
HarvestStateDrained(y, V_before, harvest_volume_percent, feed_substrate) ==
    LET harvest_volume == HarvestVolume(V_before, harvest_volume_percent)
        feed_volume == harvest_volume
        V_after_harvest == V_before - harvest_volume
        V_after_feed == V_after_harvest + feed_volume
    IN  [ y |-> << (y[1] * V_after_harvest) \div V_after_feed,
                   (y[2] * V_after_harvest + feed_substrate * feed_volume)
                       \div V_after_feed,
                   (y[3] * V_after_harvest) \div V_after_feed >>,
          V |-> V_after_harvest ]

\* faulty variant: the refeed dilutes the substrate only
HarvestStateCellsKept(y, V_before, harvest_volume_percent, feed_substrate) ==
    LET harvest_volume == HarvestVolume(V_before, harvest_volume_percent)
        V_after_harvest == V_before - harvest_volume
    IN  [ y |-> << y[1],
                   (y[2] * V_after_harvest + feed_substrate * harvest_volume)
                       \div V_before,
                   y[3] >>,
          V |-> V_before ]

\* "Harvest and Feed": the state and the volume after the symmetric exchange
HarvestState(y, V_before, harvest_volume_percent, feed_substrate) ==
    LET harvest_volume == HarvestVolume(V_before, harvest_volume_percent)
        feed_volume == harvest_volume
        V_after_harvest == V_before - harvest_volume
        V_after_feed == V_after_harvest + feed_volume
    IN  [ y |-> << (y[1] * V_after_harvest) \div V_after_feed,
                   (y[2] * V_after_harvest + feed_substrate * feed_volume)
                       \div V_after_feed,
                   (y[3] * V_after_harvest) \div V_after_feed >>,
          V |-> V_after_feed ]

\* "Record results" of the interval just integrated: all of the first one, the
\* later ones without their first sample, shifted by current_time_offset
RfbRecord ==
    /\ pc = "rfb_int"
    /\ Len(sol) = IntervalN
    /\ results' = IF cycle = 0
                  THEN IntervalSamples(0, sim_params.initial_volume)
                  ELSE results \o Tail1(IntervalSamples(Last(results).t,
                                                        Last(results).V))
    /\ pc' = "rfb_loop"
    /\ UNCHANGED << runs, runVars, sol, cycle, df, metrics, trackerVars, evals,
                    harvests, threads, reference, ensemble, kin >>

\* one iteration of "for i in range(num_cycles)" up to its odeint call
RfbHarvest ==
    /\ pc = "rfb_loop"
    /\ cycle < sim_params.num_cycles
    /\ LET before == Last(results)
           h == HarvestState(<< before.X, before.S, before.P >>, before.V,
                             sim_params.harvest_volume_percent,
                             sim_params.feed_substrate)
       IN  /\ results' = Append(results, Sample(before.t, h.y, h.V))
           /\ sol' = << h.y >>
           /\ harvests' = Append(harvests,
                  [t |-> before.t, X |-> before.X, P |-> before.P, V |-> before.V,
                   volume |-> HarvestVolume(before.V,
                                            sim_params.harvest_volume_percent)])
    /\ cycle' = cycle + 1
    /\ pc' = "rfb_int"
    /\ UNCHANGED << runs, runVars, df, metrics, trackerVars, evals, threads, reference, ensemble, kin >>

\* the loop has ended: the table is built
RfbDone ==
    /\ pc = "rfb_loop"
    /\ cycle = sim_params.num_cycles
    /\ df' = results
    /\ pc' = "done"
    /\ UNCHANGED << runs, runVars, sol, cycle, results, metrics, trackerVars,
                    evals, harvests, threads, reference, ensemble, kin >>

----------------------------------------------------------------------------
(* calculate_productivity_metrics *)

\* rows whose Volume (L) dropped by more than 0.001 against the row before
\* (volume_changes < -0.001)
HarvestRows(table) ==
    { i \in 2..Len(table) : table[i].V - table[i - 1].V < -1 }

RECURSIVE SumOver(_, _, _)
\* sum of f[i] over the rows i of a set
SumOver(rows, f, acc) ==
    IF rows = {} THEN acc
    ELSE LET i == CHOOSE r \in rows : TRUE
         IN  SumOver(rows \ {i}, f, acc + f[i])

\* the amounts found harvested: concentration of the row before the drop times
\* volume_before * harvest_volume_percent / 100
HarvestedFound(table, pct, col) ==
    SumOver(HarvestRows(table),
            [i \in 1..Len(table) |->
                IF i = 1 THEN 0
                ELSE (IF col = "X" THEN table[i - 1].X ELSE table[i - 1].P)
                     * HarvestVolume(table[i - 1].V, pct)],
            0)

\* a rate per hour from an amount and total_time = tnum / den
PerHour(amount, tnum, den) == (amount * den) \div tnum

calculate_productivity_metrics(table, m, p, den) ==
    IF table = << >> THEN NoMetrics
    ELSE
    LET final == Last(table)
        initial == table[1]
        total_time == final.t
        substrate_consumed == initial.S - final.S
        eff == [ biomass |-> IF substrate_consumed > 0
                             THEN ((final.X - initial.X) * ONE) \div substrate_consumed
                             ELSE 0,
                 product |-> IF substrate_consumed > 0
                             THEN ((final.P - initial.P) * ONE) \div substrate_consumed
                             ELSE 0 ]
        totalX == HarvestedFound(table, p.harvest_volume_percent, "X")
                    + final.X * final.V
        totalP == HarvestedFound(table, p.harvest_volume_percent, "P")
                    + final.P * final.V
        D == Dilution(p.feed_rate, p.initial_volume)
    IN  CASE m = "Batch" ->
              [ empty |-> FALSE,
                biomass_productivity |-> PerHour(final.X - initial.X, total_time, den),
                product_productivity |-> PerHour(final.P, total_time, den),
                total_biomass |-> final.X * p.initial_volume,
                total_product |-> final.P * p.initial_volume,
                efficiency |-> eff ]
          [] m = "Fed-Batch" ->
              [ empty |-> FALSE,
                biomass_productivity |-> PerHour(final.X - initial.X, total_time, den),
                product_productivity |-> PerHour(final.P, total_time, den),
                total_biomass |-> final.X * final.V,
                total_product |-> final.P * final.V,
                efficiency |-> eff ]
          [] m = "Repeated Fed-Batch" ->
              [ empty |-> FALSE,
                biomass_productivity |->
                    PerHour(totalX \div p.initial_volume, total_time, den),
                product_productivity |->
                    PerHour(totalP \div p.initial_volume, total_time, den),
                total_biomass |-> totalX,
                total_product |-> totalP,
                efficiency |-> eff ]
          [] OTHER ->
              [ empty |-> FALSE,
                biomass_productivity |->
                    Frac(Dilution(p.bleed_rate, p.initial_volume), final.X),
                product_productivity |-> Frac(D, final.P),
                total_biomass |-> final.X * p.initial_volume,
                total_product |-> final.P * p.initial_volume,
                efficiency |-> eff ]

\* the page computes the metrics of the run it displays from the nominal
\* parameters; the session may go on with another call of run_simulation
ShowRun ==
    /\ pc = "done"
    /\ metrics' = calculate_productivity_metrics(df, mode, params,
                                                 TimeDen(mode, sim_params))
    /\ pc' = "idle"
    /\ runs' = runs + 1
    /\ UNCHANGED << runVars, sol, cycle, results, df, trackerVars, evals,
                    harvests, threads, ensemble, kin >>

CalcMetrics == ShowRun /\ UNCHANGED reference

Next ==
    \/ StartRun
    \/ IntegrateBatch
    \/ IntegratePerfusion
    \/ BatchDone
    \/ PerfusionDone
    \/ FbExchange
    \/ FbDone
    \/ RfbRecord
    \/ RfbHarvest
    \/ RfbDone
    \/ CalcMetrics

Spec == Init /\ [][Next]_vars

----------------------------------------------------------------------------
(* Two perfusion runs executed concurrently by the caller.  Each thread runs
   the Bleed-Perfusion branch of run_simulation; the steps that touch the
   function attributes of perfusion_kinetics interleave. *)

Threads == {1, 2}

InitConc ==
    /\ pc = "concurrent"
    /\ runs = 0
    /\ mode = "Bleed-Perfusion"
    /\ params = BaseParams
    /\ sim_params = BaseParams
    /\ sol = << >>
    /\ cycle = 0
    /\ results = << >>
    /\ df = << >>
    /\ metrics = NoMetrics
    /\ S_max = 0
    /\ hasS_max = FALSE
    /\ crashed = FALSE
    /\ evals = << >>
    /\ harvests = << >>
    /\ leftover = [S_max |-> 0, hasS_max |-> FALSE, crashed |-> FALSE]
    /\ threads \in [Threads -> { [at |-> "reset", p |-> q, y |-> Y0(q), log |-> << >>] :
                                   q \in PerfusionParams }]
    /\ nominal = BaseParams
    /\ reference = << >>
    /\ kin = NoKinetics
    /\ ensemble = NoEnsemble

seqVars == << pc, runs, mode, params, sim_params, sol, cycle, results, df, metrics,
              evals, harvests, leftover, nominal, reference, ensemble, kin >>

\* "if hasattr(perfusion_kinetics, 'S_max'): delattr(...)" and "crashed = False"
ThreadReset(i) ==
    /\ threads[i].at = "reset"
    /\ hasS_max' = FALSE
    /\ crashed' = FALSE
    /\ threads' = [threads EXCEPT ![i].at = "init"]
    /\ UNCHANGED << S_max, seqVars >>

\* "perfusion_kinetics.S_max = max(Sf, sim_params['initial_substrate'])"
ThreadInit(i) ==
    /\ threads[i].at = "init"
    /\ S_max' = ResetPeak(hasS_max, S_max, threads[i].p.feed_substrate,
                          threads[i].p.initial_substrate)
    /\ hasS_max' = TRUE
    /\ threads' = [threads EXCEPT ![i].at = "odeint"]
    /\ UNCHANGED << crashed, seqVars >>

\* one rate evaluation of the thread's odeint call
ThreadEval(i) ==
    /\ threads[i].at = "odeint"
    /\ Len(threads[i].log) < MaxEvals
    /\ LET q == threads[i].p
           r == perfusion_kinetics(threads[i].y, q.mu_max, q.ks, q.Y_xs, q.Y_xp,
                                   Dilution(q.feed_rate, q.initial_volume),
                                   q.feed_substrate, q.cell_retention,
                                   Dilution(q.bleed_rate, q.initial_volume),
                                   hasS_max, S_max)
       IN  /\ S_max' = r.S_max
           /\ hasS_max' = TRUE
           /\ crashed' = r.crashed
           /\ threads' = [threads EXCEPT
                  ![i].y = OdeStep(threads[i].y, r.rates, Horizon, GridSpan),
                  ![i].log = Append(@, [S |-> r.S, S_max |-> r.S_max,
                                        crashed |-> r.crashed])]
    /\ UNCHANGED seqVars

NextConc ==
    \E i \in Threads : ThreadReset(i) \/ ThreadInit(i) \/ ThreadEval(i)

SpecConc == InitConc /\ [][NextConc]_vars

----------------------------------------------------------------------------
(* Runs without variability, one of them kept for comparison with the later
   runs of the session. *)

\* one scenario of each mode without a feed-back through the function
\* attributes, and every perfusion scenario
PairScenarios ==
    { [mode |-> "Batch", params |-> BaseParams],
      [mode |-> "Fed-Batch", params |-> BaseParams],
      [mode |-> "Repeated Fed-Batch", params |-> GrowingParams] }
    \cup
    { [mode |-> "Bleed-Perfusion", params |-> q] : q \in PerfusionParams }

\* np.random.normal(0, 0): a strength of 0 gives factors of 0 whatever the
\* draws
ExactDraws ==
    { [strength |-> 0, z |-> w] : w \in {<<0, 0, 0, 0>>, <<-6, 6, 6, -6>>} }

StartExactRun ==
    /\ runs < MaxPairRuns
    /\ \E sc \in PairScenarios, d \in ExactDraws : StartRunWith(sc, d)

\* the trajectory returned, kept with its arguments
Returned == [mode |-> mode, params |-> nominal, df |-> df, run |-> runs + 1]

\* the first run kept stays; any run may be the one kept
KeepRun ==
    /\ ShowRun
    /\ \/ reference' = reference
       \/ reference = << >> /\ reference' = << Returned >>

NextPairs ==
    \/ StartExactRun
    \/ IntegrateBatch
    \/ IntegratePerfusion
    \/ BatchDone
    \/ PerfusionDone
    \/ FbExchange
    \/ FbDone
    \/ RfbRecord
    \/ RfbHarvest
    \/ RfbDone
    \/ KeepRun

SpecPairs == Init /\ [][NextPairs]_vars

----------------------------------------------------------------------------
(* The page script for num_runs = 1: the run shown, the overlay scenarios
   simulated after it, then the culture status of the run shown. *)

\* current_params of the page
MainScenarios ==
    { [mode |-> "Bleed-Perfusion", params |-> q] :
          q \in {BaseParams, NearCrashParams, FadingParams} }

\* st.session_state.scenarios: saved scenarios that may be overlaid
SavedScenarios ==
    { [mode |-> "Batch", params |-> BaseParams],
      [mode |-> "Bleed-Perfusion", params |-> BaseParams],
      [mode |-> "Bleed-Perfusion", params |-> TightParams] }

\* df_run = run_simulation(mode, current_params)
MainRun ==
    /\ reference = << >>
    /\ \E sc \in MainScenarios, d \in Draws : StartRunWith(sc, d)

\* df_main with the arguments of its run; peak is the S_max attribute as the
\* run left it, status the culture status not yet computed
MainShown ==
    [mode |-> mode, params |-> nominal, df |-> df, peak |-> S_max,
     status |-> "pending"]

\* df_main = pd.concat(all_runs_df) and the traces of the main simulation
MainPlotted ==
    /\ pc = "done"
    /\ reference = << >>
    /\ reference' = << MainShown >>
    /\ pc' = "idle"
    /\ UNCHANGED << runs, runVars, sol, cycle, results, df, metrics,
                    trackerVars, evals, harvests, threads, ensemble, kin >>

\* df_overlay = run_simulation(scenario_data['mode'], scenario_data['params'])
OverlayRun ==
    /\ reference # << >>
    /\ runs < MaxOverlays
    /\ \E sc \in SavedScenarios, d \in Draws : StartRunWith(sc, d)

\* the traces of one overlay scenario
OverlayPlotted ==
    /\ pc = "done"
    /\ reference # << >>
    /\ pc' = "idle"
    /\ runs' = runs + 1
    /\ UNCHANGED << runVars, sol, cycle, results, df, metrics, trackerVars,
                    evals, harvests, threads, reference, ensemble, kin >>

\* "current_S <= S_threshold" with S_threshold = 0.000015 * S_max and
\* current_S the substrate of the last row of the table
CultureCrashDetected(table, peak) == Last(table).S <= CrashThreshold(peak)

\* "current_S < 5 * S_threshold"
CultureAtRisk(table, peak) == Last(table).S < (15 * peak + 199999) \div 200000

\* Culture Status Indicators: the attribute S_max as the last call of
\* run_simulation left it, against the last row of df_main
CultureStatus ==
    /\ pc = "idle"
    /\ reference # << >>
    /\ reference[1].mode = "Bleed-Perfusion"
    /\ hasS_max
    /\ reference' = << [reference[1] EXCEPT !.status =
                          IF CultureCrashDetected(reference[1].df, S_max)
                          THEN "crash"
                          ELSE IF CultureAtRisk(reference[1].df, S_max)
                               THEN "warning" ELSE "ok"] >>
    /\ pc' = "status"
    /\ UNCHANGED << runs, runVars, sol, cycle, results, df, metrics,
                    trackerVars, evals, harvests, threads, ensemble, kin >>

NextOverlay ==
    \/ MainRun
    \/ MainPlotted
    \/ OverlayRun
    \/ OverlayPlotted
    \/ IntegrateBatch
    \/ IntegratePerfusion
    \/ BatchDone
    \/ PerfusionDone
    \/ CultureStatus

SpecOverlay == Init /\ [][NextOverlay]_vars

----------------------------------------------------------------------------
(* The variability injection alone, over nominal values from the whole range
   of the inputs and over more outcomes of the draws than a full run needs. *)

\* nominal kinetic parameters: the ends of the widgets' ranges, a value in
\* between, and a yield of 0 as a saved scenario may carry it
NominalParams ==
    { [BaseParams EXCEPT !.mu_max = m, !.ks = k, !.Y_xs = ys, !.Y_xp = yp] :
        m \in {100, 500, ONE}, k \in {10, 1000, 5000},
        ys \in {0, 1000, 5000, ONE}, yp \in {100, 1500, ONE} }

\* variability_strength 0 %, 10 % or 20 %; each normal draw at -6, 0 or +6
\* standard deviations
WideDraws ==
    { [strength |-> v, z |-> w] : v \in {0, 10, 20}, w \in [1..4 -> {-6, 0, 6}] }

InitVar ==
    /\ pc = "nominal"
    /\ params \in NominalParams
    /\ nominal = params
    /\ sim_params = params
    /\ runs = 0
    /\ mode = "Batch"
    /\ sol = << >>
    /\ cycle = 0
    /\ results = << >>
    /\ df = << >>
    /\ metrics = NoMetrics
    /\ S_max = 0
    /\ hasS_max = FALSE
    /\ crashed = FALSE
    /\ evals = << >>
    /\ harvests = << >>
    /\ leftover = [S_max |-> 0, hasS_max |-> FALSE, crashed |-> FALSE]
    /\ threads = << >>
    /\ reference = << >>
    /\ kin = NoKinetics
    /\ ensemble = NoEnsemble

\* lines 940-975 of run_simulation
Inject ==
    /\ pc = "nominal"
    /\ \E d \in WideDraws :
         /\ sim_params' = Perturb(params, d)
         /\ params' = ParamsAfterCall(params, sim_params')
    /\ pc' = "perturbed"
    /\ UNCHANGED << runs, mode, sol, cycle, results, df, metrics, trackerVars, evals,
                    harvests, leftover, threads, nominal, reference, ensemble, kin >>

NextVar == Inject

SpecVar == InitVar /\ [][NextVar]_vars

----------------------------------------------------------------------------
(* calculate_productivity_metrics alone, applied to tables that no run of the
   engine returns as well: the empty table, a table whose substrate rose. *)

Modes == {"Batch", "Fed-Batch", "Repeated Fed-Batch", "Bleed-Perfusion"}

\* the empty table, and tables of a first row at time 0 and a last row later
Tables ==
    { << >> }
    \cup
    { << Sample(0, <<500, 10000, 0>>, 1000), Sample(t, <<X, S, P>>, V) >> :
        t \in {1, 300}, X \in {500, 2000}, S \in {0, 12000}, P \in {0, 300},
        V \in {800, 1000} }

InitMetrics ==
    /\ pc = "table"
    /\ df \in Tables
    /\ mode \in Modes
    /\ params \in {BaseParams, DepletingParams}
    /\ nominal = params
    /\ sim_params = params
    /\ runs = 0
    /\ sol = << >>
    /\ cycle = 0
    /\ results = << >>
    /\ metrics = NoMetrics
    /\ S_max = 0
    /\ hasS_max = FALSE
    /\ crashed = FALSE
    /\ evals = << >>
    /\ harvests = << >>
    /\ leftover = [S_max |-> 0, hasS_max |-> FALSE, crashed |-> FALSE]
    /\ threads = << >>
    /\ reference = << >>
    /\ kin = NoKinetics
    /\ ensemble = NoEnsemble

\* metrics = calculate_productivity_metrics(df, mode, params)
Report ==
    /\ pc = "table"
    /\ metrics' = calculate_productivity_metrics(df, mode, params,
                                                 TimeDen(mode, params))
    /\ pc' = "reported"
    /\ UNCHANGED << runs, runVars, sol, cycle, results, df, trackerVars, evals,
                    harvests, threads, reference, ensemble, kin >>

NextMetrics == Report

SpecMetrics == InitMetrics /\ [][NextMetrics]_vars

----------------------------------------------------------------------------
(* The ensemble of the page script: num_runs calls of run_simulation in a for
   loop, one table, then one metrics record per run.  A call either returns
   its table or raises; the loop has no handler, so an exception leaves the
   loop and ends the script run. *)

\* row counts of a returned table, the part of it the loops depend on
RowCounts == {1, 2}

InitEnsemble ==
    /\ pc = "ensemble"
    /\ \E n \in 1..MaxEnsemble :
         ensemble = [NoEnsemble EXCEPT !.at = "loop", !.num_runs = n]
    /\ runs = 0
    /\ mode = "Batch"
    /\ params = BaseParams
    /\ nominal = BaseParams
    /\ sim_params = BaseParams
    /\ sol = << >>
    /\ cycle = 0
    /\ results = << >>
    /\ df = << >>
    /\ metrics = NoMetrics
    /\ S_max = 0
    /\ hasS_max = FALSE
    /\ crashed = FALSE
    /\ evals = << >>
    /\ harvests = << >>
    /\ leftover = [S_max |-> 0, hasS_max |-> FALSE, crashed |-> FALSE]
    /\ threads = << >>
    /\ reference = << >>
    /\ kin = NoKinetics

ensembleFrame ==
    << pc, runs, runVars, sol, cycle, results, df, metrics, trackerVars, evals,
       harvests, threads, reference, kin >>

\* df_run = run_simulation(...); df_run['Run'] = i + 1; all_runs_df.append(df_run)
EnsembleRun ==
    /\ ensemble.at = "loop"
    /\ ensemble.i < ensemble.num_runs
    /\ \E n \in RowCounts :
         ensemble' = [ensemble EXCEPT
            !.i = @ + 1,
            !.all_runs_df = Append(@, [Run |-> ensemble.i + 1, rows |-> n])]
    /\ UNCHANGED ensembleFrame

\* run_simulation raises: the exception propagates out of the for loop
EnsembleRaise ==
    /\ ensemble.at = "loop"
    /\ ensemble.i < ensemble.num_runs
    /\ ensemble' = [ensemble EXCEPT !.at = "aborted", !.raised = ensemble.i + 1]
    /\ UNCHANGED ensembleFrame

\* df_main = pd.concat(all_runs_df, ignore_index=True)
EnsembleConcat ==
    /\ ensemble.at = "loop"
    /\ ensemble.i = ensemble.num_runs
    /\ ensemble' = [ensemble EXCEPT !.at = "metrics"]
    /\ UNCHANGED ensembleFrame

\* one turn of "for run_num in df_main['Run'].unique()"
EnsembleMetrics ==
    /\ ensemble.at = "metrics"
    /\ Len(ensemble.all_metrics) < Len(ensemble.all_runs_df)
    /\ ensemble' = [ensemble EXCEPT
            !.all_metrics =
                Append(@, ensemble.all_runs_df[Len(ensemble.all_metrics) + 1].Run)]
    /\ UNCHANGED ensembleFrame

\* the metrics table is displayed
EnsembleShown ==
    /\ ensemble.at = "metrics"
    /\ Len(ensemble.all_metrics) = Len(ensemble.all_runs_df)
    /\ ensemble' = [ensemble EXCEPT !.at = "shown"]
    /\ UNCHANGED ensembleFrame

NextEnsemble ==
    \/ EnsembleRun
    \/ EnsembleRaise
    \/ EnsembleConcat
    \/ EnsembleMetrics
    \/ EnsembleShown

SpecEnsemble == InitEnsemble /\ [][NextEnsemble]_vars

----------------------------------------------------------------------------
(* The rate functions alone: one call of batch_kinetics and of
   perfusion_kinetics on a state the integrator may hand them, a substrate
   below zero by overshoot included, and one call on the same state with the
   substrate at zero. *)

KineticsStates ==
    { <<X, S, P>> : X \in {0, 500, 5000}, S \in {-500, -50, 0, 5, 7, 1000, 20000},
                    P \in {0, 1000} }

\* the attribute S_max as a call may find it: absent, or set by the run
TrackerStates(q) ==
    { [hasPeak |-> FALSE, peak |-> 0],
      [hasPeak |-> TRUE, peak |-> Max(q.feed_substrate, q.initial_substrate)] }

AtZeroSubstrate(y) == << y[1], 0, y[3] >>

\* both rate functions called with the arguments run_simulation passes
CallKinetics(y, q, tr) ==
    [ batch |-> batch_kinetics(y, q.mu_max, q.ks, q.Y_xs, q.Y_xp),
      perfusion |-> perfusion_kinetics(y, q.mu_max, q.ks, q.Y_xs, q.Y_xp,
                                       Dilution(q.feed_rate, q.initial_volume),
                                       q.feed_substrate, q.cell_retention,
                                       Dilution(q.bleed_rate, q.initial_volume),
                                       tr.hasPeak, tr.peak) ]

InitKinetics ==
    /\ pc = "kinetics"
    /\ \E y \in KineticsStates, q \in PerfusionParams :
         \E tr \in TrackerStates(q) :
            kin = [at |-> "input", y |-> y, q |-> q, tracker |-> tr]
    /\ runs = 0
    /\ mode = "Batch"
    /\ params = BaseParams
    /\ nominal = BaseParams
    /\ sim_params = BaseParams
    /\ sol = << >>
    /\ cycle = 0
    /\ results = << >>
    /\ df = << >>
    /\ metrics = NoMetrics
    /\ S_max = 0
    /\ hasS_max = FALSE
    /\ crashed = FALSE
    /\ evals = << >>
    /\ harvests = << >>
    /\ leftover = [S_max |-> 0, hasS_max |-> FALSE, crashed |-> FALSE]
    /\ threads = << >>
    /\ reference = << >>
    /\ ensemble = NoEnsemble

\* the rates returned for the state, and for the state with S = 0
Evaluate ==
    /\ kin.at = "input"
    /\ kin' = [ at |-> "evaluated", y |-> kin.y, q |-> kin.q, tracker |-> kin.tracker,
                returned |-> CallKinetics(kin.y, kin.q, kin.tracker),
                at_zero |-> CallKinetics(AtZeroSubstrate(kin.y), kin.q, kin.tracker) ]
    /\ UNCHANGED << pc, runs, runVars, sol, cycle, results, df, metrics, trackerVars,
                    evals, harvests, threads, reference, ensemble >>

NextKinetics == Evaluate

SpecKinetics == InitKinetics /\ [][NextKinetics]_vars

----------------------------------------------------------------------------
(* Properties *)

SetMax(S) == CHOOSE x \in S : \A y \in S : y <= x

\* S <= 0.000015 * peak; a concentration above 2 g/L is above the threshold of
\* any peak the model reaches
AtOrBelowCrashThreshold(S, peak) == S <= 2000 /\ 1000000 * S <= 15 * peak

\* the largest of bound and the substrate values of the first k evaluations
PeakOf(bound, log, k) == SetMax({bound} \cup { log[j].S : j \in 1..k })

\* v is the integer part of num / 100
IsHundredth(v, num) == 100 * v <= num /\ num < 100 * v + 100

\* C1: within one perfusion run the crash state is terminal: once a rate
\* evaluation has found S <= 0.000015 x peak, every later rate evaluation of
\* the run uses the crashed rates too.
C1_CrashIsTerminal ==
    \A i, j \in DOMAIN evals :
        (i < j /\ evals[i].crashed) => evals[j].crashed

\* C2: in two concurrently executed perfusion runs the peak and the crashed
\* flag used by each rate evaluation depend only on the evaluating run's own
\* feed substrate, initial substrate and substrate history.
C2_ConcurrentRunsIsolated ==
    \A i \in DOMAIN threads :
        \A k \in DOMAIN threads[i].log :
            LET own == PeakOf(Max(threads[i].p.feed_substrate,
                                  threads[i].p.initial_substrate),
                              threads[i].log, k)
                e == threads[i].log[k]
            IN  /\ e.S_max = own
                /\ e.crashed <=> AtOrBelowCrashThreshold(e.S, own)

\* C3: every perfusion run of a sequence of runs starts with a fresh tracker,
\* peak = max(feed_substrate, initial_substrate) and crashed = false, and during
\* the run the tracker holds only this run's history, whatever tracker state
\* the earlier runs have left behind.
C3_FreshTrackerPerRun ==
    pc = "perfusion" =>
        /\ hasS_max
        /\ S_max = PeakOf(Max(sim_params.feed_substrate,
                              sim_params.initial_substrate), evals, Len(evals))
        /\ evals = << >> => ~crashed
        /\ evals # << >> => (crashed <=> Last(evals).crashed)

\* a perfusion run that starts after a run that left a crashed tracker with
\* another peak
C3_Witness ==
    /\ pc = "perfusion"
    /\ evals = << >>
    /\ leftover.crashed
    /\ leftover.hasS_max
    /\ leftover.S_max > S_max

\* C4: a rate evaluation of a perfusion run takes the crashed branch exactly
\* when its clamped substrate S satisfies S <= 0.000015 x peak, peak being the
\* maximum of the feed substrate and every substrate value evaluated so far in
\* the run; otherwise it takes the healthy branch.
C4_CrashExactlyAtThreshold ==
    pc = "perfusion" =>
        \A k \in DOMAIN evals :
            /\ evals[k].S >= 0
            /\ evals[k].S = Max(0, sol[evals[k].at][2])
            /\ evals[k].crashed <=>
                  AtOrBelowCrashThreshold(evals[k].S,
                      PeakOf(sim_params.feed_substrate, evals, k))

\* the transition Healthy -> Crashed has fired at a positive substrate value
C4_Witness ==
    /\ pc = "perfusion"
    /\ \E k \in DOMAIN evals :
          /\ k > 1
          /\ ~evals[k - 1].crashed
          /\ evals[k].crashed
          /\ evals[k].S > 0

\* C5: in a perfusion run, once the culture has crashed at the evaluation of
\* some sample, biomass and product never increase between two later samples
\* of the returned trajectory.
C5_NoIncreaseAfterCrash ==
    (pc = "done" /\ mode = "Bleed-Perfusion") =>
        \A k \in DOMAIN evals :
            evals[k].crashed =>
                \A i, j \in DOMAIN df :
                    (evals[k].at < i /\ i < j) =>
                        (df[j].X <= df[i].X /\ df[j].P <= df[i].P)

\* rows of a table whose volume is below that of the row before
VolumeDrops(table) == { i \in 2..Len(table) : table[i].V < table[i - 1].V }

\* C6: the trajectory of a Repeated Fed-Batch run with harvest fraction > 0
\* shows exactly num_cycles harvest events, each a drop of the Volume column
\* between consecutive samples by harvest_fraction x V_before.
C6_HarvestDropsVisible ==
    (pc = "done" /\ mode = "Repeated Fed-Batch"
                 /\ sim_params.harvest_volume_percent > 0) =>
        /\ Cardinality(VolumeDrops(df)) = sim_params.num_cycles
        /\ \A i \in VolumeDrops(df) :
              IsHundredth(df[i - 1].V - df[i].V,
                          sim_params.harvest_volume_percent * df[i - 1].V)

RECURSIVE HarvestedTruly(_, _)
\* the amounts removed at the harvest events of the run
HarvestedTruly(hs, col) ==
    IF hs = << >> THEN 0
    ELSE (IF col = "X" THEN hs[1].X ELSE hs[1].P) * hs[1].volume
         + HarvestedTruly(Tail(hs), col)

\* C7: for a Repeated Fed-Batch trajectory with harvest fraction > 0 the metrics
\* report as total product (biomass) the sum over all num_cycles harvest events
\* of concentration before the harvest x harvested volume, plus final
\* concentration x final volume.
C7_TotalsCountHarvests ==
    (pc = "idle" /\ ~metrics.empty /\ mode = "Repeated Fed-Batch"
                 /\ params.harvest_volume_percent > 0) =>
        /\ Len(harvests) = params.num_cycles
        /\ metrics.total_product =
              HarvestedTruly(harvests, "P") + Last(df).P * Last(df).V
        /\ metrics.total_biomass =
              HarvestedTruly(harvests, "X") + Last(df).X * Last(df).V

\* C8 as stated: the times of every returned trajectory are strictly increasing.
C8_TimeStrictlyIncreasing ==
    pc = "done" => \A i \in 1..(Len(df) - 1) : df[i].t < df[i + 1].t

\* C8 amended: in every returned trajectory time never decreases; in Batch and
\* Bleed-Perfusion it is strictly increasing; in Fed-Batch and Repeated
\* Fed-Batch every event sample repeats the time of the sample before it.
C8_TimeNonDecreasing ==
    pc = "done" =>
        /\ \A i \in 1..(Len(df) - 1) : df[i].t <= df[i + 1].t
        /\ mode \in {"Batch", "Bleed-Perfusion"} =>
              \A i \in 1..(Len(df) - 1) : df[i].t < df[i + 1].t
        /\ mode = "Fed-Batch" => df[GridPhase].t = df[GridPhase + 1].t
        /\ mode = "Repeated Fed-Batch" =>
              Cardinality({ i \in 1..(Len(df) - 1) : df[i].t = df[i + 1].t })
                  = sim_params.num_cycles

\* a finished repeated fed-batch run of two cycles whose later intervals start
\* at a positive time, and whose time has advanced after the second event
C8_Witness ==
    /\ pc = "done"
    /\ mode = "Repeated Fed-Batch"
    /\ sim_params.num_cycles = 2
    /\ \E i \in 2..(Len(df) - 1) :
          /\ df[i].t = df[i - 1].t
          /\ df[i].t > df[1].t
          /\ df[i + 1].t > df[i].t

\* C9: the fed-batch exchange with fraction f maps the state before it to
\* X_after = (1-f) X_before, P_after = (1-f) P_before,
\* S_after = (1-f) S_before + f feed_substrate (each to the fixed point unit),
\* leaves the volume unchanged, and S_after lies between S_before and
\* feed_substrate.
C9_ExchangeBlends ==
    (pc = "fb_after" /\ Len(sol) = 1) =>
        LET before == results[Len(results) - 1]
            after == Last(results)
            f == sim_params.exchange_volume_percent
            Sf == sim_params.feed_substrate
        IN  /\ f \in 0..100
            /\ IsHundredth(after.X, (100 - f) * before.X)
            /\ IsHundredth(after.P, (100 - f) * before.P)
            /\ IsHundredth(after.S, (100 - f) * before.S + f * Sf)
            /\ after.V = before.V
            /\ Min(before.S, Sf) <= after.S
            /\ after.S <= Max(before.S, Sf)
            /\ sol[1] = << after.X, after.S, after.P >>

\* an exchange of part of the volume has changed biomass, substrate and product
C9_Witness ==
    /\ pc = "fb_after"
    /\ Len(sol) = 1
    /\ sim_params.exchange_volume_percent = 20
    /\ results[Len(results) - 1].P > Last(results).P
    /\ results[Len(results) - 1].X > Last(results).X
    /\ results[Len(results) - 1].S < Last(results).S

\* sample i of the full-horizon solution is below the stop threshold
BelowStop(i) == 1000 * sol[i][2] < 8 * sim_params.initial_substrate

\* C10: the trajectory returned by a perfusion run is the full-horizon solution
\* cut before its first sample with S < 0.008 x initial_substrate: every
\* returned sample has S >= 0.008 x initial_substrate, the returned samples
\* are a prefix of the solution, and the whole solution is returned when no
\* sample is below the threshold.
C10_TruncatedAtStop ==
    (pc = "done" /\ mode = "Bleed-Perfusion") =>
        /\ Len(df) <= Len(sol)
        /\ Len(sol) = GridSpan
        /\ \A i \in DOMAIN df :
              /\ ~BelowStop(i)
              /\ df[i].X = sol[i][1] /\ df[i].S = sol[i][2] /\ df[i].P = sol[i][3]
              /\ df[i].t * (GridSpan - 1) = (i - 1) * Horizon * TimeDen(mode, sim_params)
        /\ Len(df) < Len(sol) => BelowStop(Len(df) + 1)
        /\ (\A i \in DOMAIN sol : ~BelowStop(i)) => Len(df) = Len(sol)

\* a perfusion run returned cut short, with more than its first sample
C10_Witness ==
    /\ pc = "done"
    /\ mode = "Bleed-Perfusion"
    /\ Len(df) > 1
    /\ Len(df) < Len(sol)

\* C11: original statement.  In every perfusion run the early-termination
\* threshold 0.008 x initial_substrate lies strictly above the crash threshold
\* 0.000015 x peak: every substrate value at or below the crash threshold is
\* below the early-termination threshold.
C11_StopLooserThanCrash ==
    pc = "perfusion" =>
        \A S \in 0..CrashThreshold(S_max) : StopsAt(<< <<0, S, 0>> >>, 1, sim_params.initial_substrate)

\* C11, amended: the same, for runs with initial_substrate >= 1 g/L whose
\* peak substrate is at most 500 g/L, the largest accepted feed concentration.
C11_StopLooserFromOneGramPerLitre ==
    (pc = "perfusion" /\ sim_params.initial_substrate >= 1000 /\ S_max <= 500000) =>
        \A S \in 0..CrashThreshold(S_max) : StopsAt(<< <<0, S, 0>> >>, 1, sim_params.initial_substrate)

C11_Witness ==
    /\ pc = "perfusion"
    /\ sim_params.initial_substrate = 1000
    /\ S_max = 500000
    /\ CrashThreshold(S_max) = 7
    /\ evals # << >>

\* C12: whatever the nominal values and the outcome of the draws, the
\* perturbed parameters satisfy mu_max >= 0.01, ks >= 0.01, 0.1 <= Y_xs <= 1.0
\* and 0.01 <= Y_xp <= 1.0.
C12_PerturbedWithinClamps ==
    pc = "perturbed" =>
        /\ sim_params.mu_max >= 100
        /\ sim_params.ks >= 10
        /\ sim_params.Y_xs >= 1000 /\ sim_params.Y_xs <= ONE
        /\ sim_params.Y_xp >= 100 /\ sim_params.Y_xp <= ONE

\* every clamp at work in one injection
C12_Witness ==
    /\ pc = "perturbed"
    /\ nominal.mu_max > 100 /\ sim_params.mu_max = 100
    /\ nominal.ks > 10 /\ sim_params.ks = 10
    /\ nominal.Y_xs < ONE /\ sim_params.Y_xs = ONE
    /\ nominal.Y_xp > 100 /\ sim_params.Y_xp = 100

\* C13: run_simulation never changes the caller's parameter set: during and
\* after a run, in any mode, every entry of the params mapping has the value
\* the caller passed in.
C13_CallerParamsUntouched == params = nominal

\* a finished run whose private copy was perturbed
C13_Witness ==
    /\ pc = "idle"
    /\ runs > 0
    /\ sim_params.mu_max # nominal.mu_max
    /\ sim_params.Y_xs # nominal.Y_xs

\* the parameters the variability injection writes
VariedKeys == {"mu_max", "ks", "Y_xs", "Y_xp"}

\* C14: the variability injection changes only mu_max, ks, Y_xs and Y_xp: every
\* other entry of the private copy equals its nominal value.
C14_OnlyKineticsVaried ==
    pc = "perturbed" =>
        /\ DOMAIN sim_params = DOMAIN nominal
        /\ \A k \in DOMAIN nominal \ VariedKeys : sim_params[k] = nominal[k]

\* an injection that changed all four
C14_Witness ==
    /\ pc = "perturbed"
    /\ \A k \in VariedKeys : sim_params[k] # nominal[k]

\* C15: without variability, a run returns the trajectory that an earlier run
\* of the same mode and nominal parameter set returned, whatever runs were
\* executed before either of them.
C15_RepeatableWithoutVariability ==
    (pc = "done" /\ reference # << >>
        /\ reference[1].mode = mode /\ reference[1].params = nominal) =>
            df = reference[1].df

\* a perfusion run repeated after a run that left a higher peak behind
C15_Witness ==
    /\ pc = "done"
    /\ reference # << >>
    /\ reference[1].mode = mode
    /\ reference[1].params = nominal
    /\ reference[1].run < runs
    /\ nominal = NearCrashParams
    /\ leftover.hasS_max
    /\ leftover.S_max = 500000
    /\ \E k \in DOMAIN evals : evals[k].S = CrashThreshold(leftover.S_max)

\* a parameter set the engine is to reject: a yield that is not positive
Invalid(p) == p.Y_xs <= 0 \/ p.Y_xp <= 0

\* C16: an invalid parameter set is rejected before any simulation step runs:
\* the integrator takes no step from the initial state with a clamped value
\* in place of the invalid one, and no trajectory is returned.
C16_InvalidRejected ==
    Invalid(nominal) =>
        /\ Len(sol) <= 1
        /\ df = << >>

\* C17: applied to an empty trajectory, in any mode and with any parameter
\* set, calculate_productivity_metrics returns the empty record and reads no
\* row of the trajectory.
C17_EmptyTableNoMetrics ==
    (pc = "reported" /\ df = << >>) =>
        /\ metrics.empty
        /\ DOMAIN metrics = {"empty"}

\* the empty table reported in the mode that reads the most rows
C17_Witness ==
    /\ pc = "reported"
    /\ df = << >>
    /\ mode = "Repeated Fed-Batch"
    /\ metrics = NoMetrics

\* C18: when the script run of an ensemble has ended, every run other than a
\* run that failed has been executed and has its trajectory and its metrics
\* record.
C18_FailureIsolated ==
    ensemble.at \in {"aborted", "shown"} =>
        \A j \in 1..ensemble.num_runs :
            j # ensemble.raised =>
                /\ \E k \in DOMAIN ensemble.all_runs_df : ensemble.all_runs_df[k].Run = j
                /\ \E k \in DOMAIN ensemble.all_metrics : ensemble.all_metrics[k] = j

\* the metrics of a finished run of mode m are on display
Reported(m) == pc = "idle" /\ runs > 0 /\ mode = m /\ df # << >>

\* C19: for a non-empty perfusion trajectory the metrics report Biomass
\* Productivity = final_X * bleed_rate / volume and Product Productivity =
\* final_P * (feed_rate + bleed_rate) / volume, the total dilution rate being
\* the sum of the feed and bleed dilution rates.
C19_PerfusionProductivities ==
    Reported("Bleed-Perfusion") =>
        /\ metrics.biomass_productivity =
                Frac(Dilution(params.bleed_rate, params.initial_volume), Last(df).X)
        /\ metrics.product_productivity =
                Frac(Dilution(params.feed_rate + params.bleed_rate,
                              params.initial_volume), Last(df).P)

\* the volume the totals of a run are scaled by: initial_volume in Batch, the
\* final Volume (L) in Fed-Batch
TotalsVolume == IF mode = "Batch" THEN params.initial_volume ELSE Last(df).V

\* C20: in Batch and Fed-Batch the totals agree with the productivities:
\* Biomass Productivity = (final - initial) / total_time, so Total Biomass
\* Produced = (final_X - initial_X) * volume, and Total Product Produced =
\* final_P * volume.
C20_TotalsMatchProductivity ==
    (Reported("Batch") \/ Reported("Fed-Batch")) =>
        /\ metrics.biomass_productivity =
                PerHour(Last(df).X - df[1].X, Last(df).t, TimeDen(mode, sim_params))
        /\ metrics.product_productivity =
                PerHour(Last(df).P - df[1].P, Last(df).t, TimeDen(mode, sim_params))
        /\ metrics.total_biomass = (Last(df).X - df[1].X) * TotalsVolume
        /\ metrics.total_product = (Last(df).P - df[1].P) * TotalsVolume

\* C21: for a state with S < 0 both rate functions return the rates they
\* return for S = 0: the substrate is clamped to zero before the rates are
\* evaluated, so no growth term is negative.
C21_NegativeSubstrateClamped ==
    (kin.at = "evaluated" /\ kin.y[2] < 0) =>
        /\ kin.returned.batch = kin.at_zero.batch
        /\ kin.returned.perfusion.rates = kin.at_zero.perfusion.rates

\* the healthy rates with the bleed dilution acting on biomass, substrate and
\* product, for the growth rate constant mu_max
RatesWithBleed(y, q, mu_max) ==
    LET X == y[1]
        S == ClampS(y[2])
        P == y[3]
        D == Dilution(q.feed_rate, q.initial_volume)
        D_bleed == Dilution(q.bleed_rate, q.initial_volume)
        growth == Frac(Monod(mu_max, q.ks, S), X)
    IN  << growth - Frac(ONE - q.cell_retention, Frac(D, X)) - Frac(D_bleed, X),
           Frac(D, q.feed_substrate) - Frac(D, S) - Frac(D_bleed, S)
               - (growth * ONE) \div q.Y_xs,
           Frac(q.Y_xp, growth) - Frac(D, P) - Frac(D_bleed, P) >>

\* C23: in the healthy state perfusion_kinetics returns
\* dX = mu X - (1-R) D X - D_bleed X, dS = D (Sf - S) - D_bleed S - mu X / Y_xs
\* and dP = Y_xp mu X - (D + D_bleed) P: the bleed dilution acts on substrate
\* and product as well as on biomass.
C23_HealthyRatesWithBleed ==
    (kin.at = "evaluated" /\ ~kin.returned.perfusion.crashed) =>
        kin.returned.perfusion.rates = RatesWithBleed(kin.y, kin.q, kin.q.mu_max)

\* C24: the rates returned in the crashed state are the healthy rates with
\* the growth rate set to 0: only growth, consumption and formation are
\* removed, every washout term on X, S and P stays.
C24_CrashIsHealthyWithoutGrowth ==
    (kin.at = "evaluated" /\ kin.returned.perfusion.crashed) =>
        LET y == kin.y
            q == kin.q
        IN  kin.returned.perfusion.rates =
                HealthyRates(y[1], ClampS(y[2]), y[3], 0, q.ks, q.Y_xs, q.Y_xp,
                             Dilution(q.feed_rate, q.initial_volume),
                             q.feed_substrate, q.cell_retention,
                             Dilution(q.bleed_rate, q.initial_volume))

Abs(x) == IF x < 0 THEN -x ELSE x

\* rounding allowed at sample i of a Batch table: per integration step one
\* unit of rate over the step's hours, and three units of flooring
BalanceTolerance(i) == (i - 1) * (Horizon \div (GridSpan - 1) + 3)

\* the mass balance of a Batch table with the yields of p
BatchBalance(p) ==
    \A i \in DOMAIN df :
        /\ Abs(Frac(p.Y_xs, df[1].S - df[i].S) - (df[i].X - df[1].X))
                <= BalanceTolerance(i)
        /\ Abs(df[i].P - Frac(p.Y_xp, df[i].X - df[1].X)) <= BalanceTolerance(i)

\* C22: original statement.  At every sample of a Batch run on a valid
\* parameter set Y_xs * (S(0) - S(t)) = X(t) - X(0) and
\* P(t) = Y_xp * (X(t) - X(0)), with the yields of that parameter set.
C22_BatchMassBalance ==
    (mode = "Batch" /\ df # << >> /\ ~Invalid(nominal)) => BatchBalance(nominal)

\* C22, amended: the same with the perturbed yields of the private copy.
C22_BatchMassBalancePerturbed ==
    (mode = "Batch" /\ df # << >>) => BatchBalance(sim_params)

\* a Batch run with perturbed yields and more than 1 g/L of growth
C22_Witness ==
    /\ mode = "Batch"
    /\ pc = "done"
    /\ sim_params.Y_xs # nominal.Y_xs
    /\ sim_params.Y_xp # nominal.Y_xp
    /\ Last(df).X - df[1].X > 1000

\* the time first_harvest_time + k * subsequent_harvest_time as a numerator
\* over the run's denominator
CycleEnd(k) ==
    (sim_params.first_harvest_time + k * sim_params.subsequent_harvest_time)
        * TimeDen(mode, sim_params)

\* the row of the k-th event in a Repeated Fed-Batch table: after the samples
\* of the first interval and of k - 1 later intervals
EventRow(k) ==
    CycleSamples(sim_params.first_harvest_time) + 1
        + (k - 1) * CycleSamples(sim_params.subsequent_harvest_time)

\* C25: a Repeated Fed-Batch run is num_cycles + 1 intervals, the first of
\* length first_harvest_time and the others of length subsequent_harvest_time,
\* with one harvest-then-refeed event between consecutive intervals, at
\* first_harvest_time + k * subsequent_harvest_time for k = 0..num_cycles-1,
\* and none after the last; the trajectory ends at
\* first_harvest_time + num_cycles * subsequent_harvest_time.
C25_CycleSchedule ==
    (pc = "done" /\ mode = "Repeated Fed-Batch") =>
        LET c == sim_params.num_cycles
            events == { EventRow(k) : k \in 1..c }
        IN  /\ Len(harvests) = c
            /\ \A k \in 1..c : harvests[k].t = CycleEnd(k - 1)
            /\ Len(df) = EventRow(c + 1) - 1
            /\ df[1].t = 0
            /\ Last(df).t = CycleEnd(c)
            /\ \A k \in 1..c :
                  /\ df[EventRow(k)].t = CycleEnd(k - 1)
                  /\ df[EventRow(k) - 1].t = CycleEnd(k - 1)
            /\ \A i \in 2..Len(df) : i \notin events => df[i].t > df[i - 1].t

\* two cycles longer than the first interval
C25_Witness ==
    /\ pc = "done"
    /\ mode = "Repeated Fed-Batch"
    /\ sim_params.num_cycles = 2
    /\ sim_params.first_harvest_time = 1
    /\ sim_params.subsequent_harvest_time = 2
    /\ Len(harvests) = 2
    /\ Last(df).t = CycleEnd(2)

\* C26: a harvest-then-refeed event with harvest fraction h maps the state
\* before it to X_after = (1-h) X_before, P_after = (1-h) P_before and
\* S_after = (1-h) S_before + h feed_substrate (each to the fixed point unit),
\* the volume-weighted averages over the volume left by the harvest and a
\* feed volume equal to the harvest volume.
C26_HarvestRefeedBlends ==
    (pc = "rfb_int" /\ cycle > 0 /\ Len(sol) = 1) =>
        LET before == results[Len(results) - 1]
            after == Last(results)
            h == sim_params.harvest_volume_percent
            Sf == sim_params.feed_substrate
            taken == Last(harvests)
        IN  /\ h \in 0..100
            /\ taken.volume * 100 = h * before.V
            /\ IsHundredth(after.X, (100 - h) * before.X)
            /\ IsHundredth(after.P, (100 - h) * before.P)
            /\ IsHundredth(after.S, (100 - h) * before.S + h * Sf)
            /\ after.V = (before.V - taken.volume) + taken.volume
            /\ sol[1] = << after.X, after.S, after.P >>

\* an event that halves biomass and product and raises the substrate
C26_Witness ==
    /\ pc = "rfb_int"
    /\ cycle > 0
    /\ Len(sol) = 1
    /\ sim_params.harvest_volume_percent = 50
    /\ results[Len(results) - 1].X > Last(results).X
    /\ results[Len(results) - 1].P > Last(results).P
    /\ results[Len(results) - 1].S < Last(results).S

\* the state columns of a row
StateOf(row) == << row.X, row.S, row.P >>

\* the second sample of an integration of length len over n grid points that
\* starts from the state y
SecondSample(y, len, n) ==
    OdeStep(y, batch_kinetics(y, sim_params.mu_max, sim_params.ks,
                              sim_params.Y_xs, sim_params.Y_xp), len, n)

\* row e of the table is an event row: the row before it is at the same time,
\* the event maps that row's state to post, and the row after it is the second
\* sample of the integration of length len over n points started from post
RecordedOnce(e, time, post, len, n) ==
    /\ e + 1 <= Len(df)
    /\ df[e - 1].t = time
    /\ df[e].t = time
    /\ StateOf(df[e]) = post
    /\ StateOf(df[e + 1]) = SecondSample(post, len, n)
    /\ df[e + 1].t = Linspace(time, len, n, TimeDen(mode, sim_params), 1)

\* C27: at every event of a Fed-Batch or Repeated Fed-Batch run the jump is
\* recorded exactly once: the last sample of the interval before the event
\* holds the state before it, the next sample is at the event time and holds
\* the state after it, the integration of the next interval starts from that
\* state, and the first sample of the next interval is not appended again.
C27_JumpRecordedOnce ==
    /\ (pc = "done" /\ mode = "Fed-Batch") =>
          /\ Len(df) = 2 * GridPhase
          /\ RecordedOnce(GridPhase + 1,
                          sim_params.exchange_time * TimeDen(mode, sim_params),
                          ExchangeState(StateOf(df[GridPhase]),
                                        sim_params.exchange_volume_percent,
                                        sim_params.feed_substrate),
                          Horizon - sim_params.exchange_time, GridPhase)
    /\ (pc = "done" /\ mode = "Repeated Fed-Batch") =>
          /\ Len(df) = EventRow(sim_params.num_cycles + 1) - 1
          /\ \A k \in 1..sim_params.num_cycles :
                RecordedOnce(EventRow(k), CycleEnd(k - 1),
                             HarvestState(StateOf(df[EventRow(k) - 1]),
                                          df[EventRow(k) - 1].V,
                                          sim_params.harvest_volume_percent,
                                          sim_params.feed_substrate).y,
                             sim_params.subsequent_harvest_time,
                             CycleSamples(sim_params.subsequent_harvest_time))

\* a finished Fed-Batch run whose exchange at 25 h shows as a jump, followed
\* by a later sample
C27_Witness ==
    /\ pc = "done"
    /\ mode = "Fed-Batch"
    /\ sim_params.exchange_time = 25
    /\ df[GridPhase].t = df[GridPhase + 1].t
    /\ df[GridPhase].X > df[GridPhase + 1].X
    /\ df[GridPhase + 2].t > df[GridPhase + 1].t

\* max(feed_substrate, initial_substrate) of the run in progress
InitialPeak == Max(sim_params.feed_substrate, sim_params.initial_substrate)

\* C28: within one perfusion run the tracked peak never decreases and is at
\* least max(feed_substrate, initial_substrate): after every rate evaluation it
\* is the maximum of that bound and the clamped substrate values evaluated
\* since the reset of the run.
C28_PeakMonotone ==
    (mode = "Bleed-Perfusion" /\ pc \in {"perfusion", "done"}) =>
        /\ S_max >= InitialPeak
        /\ S_max = PeakOf(InitialPeak, evals, Len(evals))
        /\ \A k \in DOMAIN evals :
              /\ evals[k].S = ClampS(sol[evals[k].at][2])
              /\ evals[k].S_max = PeakOf(InitialPeak, evals, k)
              /\ evals[k].S_max >= evals[k].S
              /\ evals[k].S_max >= (IF k = 1 THEN InitialPeak
                                              ELSE evals[k - 1].S_max)

\* a run whose evaluated substrate has fallen to the clamp and risen again
\* while the peak stayed at the initial bound
C28_Witness ==
    /\ mode = "Bleed-Perfusion"
    /\ pc = "perfusion"
    /\ Len(evals) >= 3
    /\ \E j \in DOMAIN evals : sol[evals[j].at][2] < 0 /\ evals[j].S = 0
    /\ \E k \in 2..Len(evals) : evals[k].S > evals[k - 1].S
    /\ S_max = InitialPeak

StopAboveCrash(S0, peak) == 8000 * S0 > 15 * peak

\* C30: a perfusion run whose early-termination threshold exceeds its crash
\* threshold (0.008 x initial_substrate > 0.000015 x peak) returns no sample
\* with substrate at or below the crash threshold, so the culture status
\* computed from the last returned sample never reports a crash for it.
C30_NoCrashShown ==
    (pc = "status"
        /\ StopAboveCrash(reference[1].params.initial_substrate,
                          reference[1].peak)) =>
        /\ reference[1].df # << >>
        /\ \A i \in DOMAIN reference[1].df :
              reference[1].df[i].S > CrashThreshold(reference[1].peak)
        /\ reference[1].status # "crash"

\* the same for the pages that simulated no perfusion scenario after the run
\* shown: the attribute read is the peak of the run shown
NoCrashShownWithoutOverlay ==
    (pc = "status" /\ S_max = reference[1].peak
        /\ StopAboveCrash(reference[1].params.initial_substrate,
                          reference[1].peak)) =>
        /\ reference[1].df # << >>
        /\ \A i \in DOMAIN reference[1].df :
              reference[1].df[i].S > CrashThreshold(reference[1].peak)
        /\ reference[1].status # "crash"

====
